---- MODULE Spec2Model ----
(***************************************************************************)
(* Model of google_sheets_api_export.py: the script that downloads every   *)
(* tab of a Google spreadsheet and writes each one as a CSV file.          *)
(*                                                                         *)
(* Text (Python str) is a sequence of one-character strings.  Two          *)
(* specifications are given:                                               *)
(*   Spec     the script run from __main__ (credentials, tab list, one     *)
(*            export and one file per tab), every collaborator call may    *)
(*            fail;                                                        *)
(*   SpecCsv  a user fills one tab of the spreadsheet, then                *)
(*            export_sheet_to_csv is applied to it.                        *)
(***************************************************************************)
EXTENDS Integers, Sequences, FiniteSets, TLC

VARIABLES
    pc,             \* position of the script
    SPREADSHEET_ID, \* the module-level constant of __main__
    remote,         \* the spreadsheet on the server: sequence of [title, values]
    token_pickle,   \* the file token.pickle
    token0,         \* token.pickle as it was when the script started
    creds,          \* the credentials held by the script
    dir_exists,     \* whether output_dir exists
    fs,             \* files under the working directory: path -> content
    sheet_names,    \* download_all_sheets: the tab names the API returned
    idx,            \* download_all_sheets: position of the for loop in sheet_names
    values,         \* export_sheet_to_csv: result.get('values', [])
    csv_rows,       \* export_sheet_to_csv: the csv_row list of every iteration
    csv_content,    \* export_sheet_to_csv: the list of joined rows
    csv_data,       \* what export_sheet_to_csv returned
    log,            \* the values requests and file writes made so far, in order
    stats           \* how often each collaborator was used

vars == <<pc, SPREADSHEET_ID, remote, token_pickle, token0, creds, dir_exists, fs,
          sheet_names, idx, values, csv_rows, csv_content, csv_data, log, stats>>

(***************************************************************************)
(* Bounds of the model.                                                    *)
(***************************************************************************)
MaxRows == 2
MaxCells == 3
MaxKeys == 3
MaxInt == 10
MaxTabs == 2

(***************************************************************************)
(* Characters and cell values.                                             *)
(***************************************************************************)
COMMA == ","
DQUOTE == "\""
NEWLINE == "\n"
SLASH == "/"
UNDERSCORE == "_"

Alphabet == {"a", COMMA, DQUOTE, NEWLINE}

StrCell(s) == [kind |-> "str", s |-> s, n |-> 0, b |-> FALSE]
IntCell(n) == [kind |-> "int", s |-> <<>>, n |-> n, b |-> FALSE]
BoolCell(b) == [kind |-> "bool", s |-> <<>>, n |-> 0, b |-> b]

Digit(d) ==
    CASE d = 0 -> "0" [] d = 1 -> "1" [] d = 2 -> "2" [] d = 3 -> "3" [] d = 4 -> "4"
      [] d = 5 -> "5" [] d = 6 -> "6" [] d = 7 -> "7" [] d = 8 -> "8" [] d = 9 -> "9"

RECURSIVE IntToStr(_)
IntToStr(n) == IF n < 10 THEN <<Digit(n)>> ELSE IntToStr(n \div 10) \o <<Digit(n % 10)>>

\* str(cell): a str is itself, an int its decimal digits, a bool True or False
str(cell) ==
    CASE cell.kind = "str" -> cell.s
      [] cell.kind = "int" -> IntToStr(cell.n)
      [] cell.kind = "bool" -> IF cell.b THEN <<"T", "r", "u", "e">>
                                         ELSE <<"F", "a", "l", "s", "e">>

(***************************************************************************)
(* Python string operations used by the script.                            *)
(***************************************************************************)
\* c in s, for a one-character c
contains(c, s) == \E k \in 1..Len(s) : s[k] = c

\* s.replace(old, new), for a one-character old
RECURSIVE replace(_, _, _)
replace(s, old, new) ==
    IF s = <<>> THEN <<>>
    ELSE (IF Head(s) = old THEN new ELSE <<Head(s)>>) \o replace(Tail(s), old, new)

\* the mutant of join: a separator after every part, the last one too
RECURSIVE join_trailing(_, _)
join_trailing(sep, parts) ==
    IF parts = <<>> THEN <<>> ELSE Head(parts) \o sep \o join_trailing(sep, Tail(parts))

\* sep.join(parts)
RECURSIVE join(_, _)
join(sep, parts) ==
    IF parts = <<>> THEN <<>>
    ELSE IF Len(parts) = 1 THEN Head(parts)
    ELSE Head(parts) \o sep \o join(sep, Tail(parts))

(***************************************************************************)
(* export_sheet_to_csv, lines 49-61.                                       *)
(***************************************************************************)
\* the mutant of csv_field: a newline alone does not quote the field
csv_field_no_newline(cell) ==
    IF contains(COMMA, str(cell)) \/ contains(DQUOTE, str(cell))
    THEN <<DQUOTE>> \o replace(str(cell), DQUOTE, <<DQUOTE, DQUOTE>>) \o <<DQUOTE>>
    ELSE str(cell)

\* lines 55-58: what is appended to csv_row for one cell
csv_field(cell) ==
    IF contains(COMMA, str(cell)) \/ contains(DQUOTE, str(cell))
       \/ contains(NEWLINE, str(cell))
    THEN <<DQUOTE>> \o replace(str(cell), DQUOTE, <<DQUOTE, DQUOTE>>) \o <<DQUOTE>>
    ELSE str(cell)

\* lines 52-58: csv_row at the end of the inner loop
csv_row(row) == [j \in 1..Len(row) |-> csv_field(row[j])]

\* lines 50-59: every csv_row, and csv_content at the end of the outer loop
csv_rows_of(grid) == [i \in 1..Len(grid) |-> csv_row(grid[i])]
csv_content_of(grid) == [i \in 1..Len(grid) |-> join(<<COMMA>>, csv_row(grid[i]))]

None == [none |-> TRUE, text |-> <<>>]
Text(t) == [none |-> FALSE, text |-> t]

\* `if csv_data:` -- neither None nor the empty string
truthy(d) == ~d.none /\ d.text # <<>>

\* result.get('values', []) of the tab called sheet_name
values_of(sheet_name) ==
    LET k == CHOOSE k \in 1..Len(remote) : remote[k].title = sheet_name
    IN  remote[k].values

\* lines 43-61 applied to the grid the API returned
export_sheet_to_csv(grid) ==
    /\ values' = grid
    /\ IF Len(grid) = 0
       THEN /\ csv_rows' = <<>>
            /\ csv_content' = <<>>
            /\ csv_data' = None
       ELSE /\ csv_rows' = csv_rows_of(grid)
            /\ csv_content' = csv_content_of(grid)
            /\ csv_data' = Text(join(<<NEWLINE>>, csv_content_of(grid)))

(***************************************************************************)
(* get_credentials, lines 16-34.                                           *)
(***************************************************************************)
NoCreds == [none |-> TRUE, token |-> "none", expired |-> FALSE, refresh_token |-> FALSE]

\* google.oauth2 Credentials.valid: a token that has not expired
valid(c) == c.token # "none" /\ ~c.expired

\* creds.refresh(Request()) when it succeeds
refreshed(c) == [c EXCEPT !.token = "refreshed", !.expired = FALSE]

\* flow.run_local_server(port=0) when it succeeds
granted == [none |-> FALSE, token |-> "granted", expired |-> FALSE, refresh_token |-> TRUE]

Absent == [exists |-> FALSE, readable |-> FALSE, creds |-> NoCreds]
Cached(c) == [exists |-> TRUE, readable |-> TRUE, creds |-> c]
Truncated == [exists |-> TRUE, readable |-> FALSE, creds |-> NoCreds]

PLACEHOLDER == "YOUR_SPREADSHEET_ID_HERE"

Bump(field) == stats' = [stats EXCEPT ![field] = @ + 1]

\* an unhandled exception: the interpreter exits, nothing else changes
Abort(unchanged) ==
    /\ pc' = "aborted"
    /\ UNCHANGED unchanged

csvVars == <<values, csv_rows, csv_content, csv_data>>
loopVars == <<sheet_names, idx, log>>
credVars == <<token_pickle, creds>>

\* the mutant of Main: the placeholder is not checked
MainUnchecked ==
    /\ pc = "main"
    /\ pc' = "get_credentials"
    /\ Bump("download_calls")
    /\ UNCHANGED <<SPREADSHEET_ID, remote, token0, dir_exists, fs>>
    /\ UNCHANGED <<credVars, loopVars, csvVars>>

\* lines 94-105
Main ==
    /\ pc = "main"
    /\ IF SPREADSHEET_ID = PLACEHOLDER
       THEN /\ pc' = "guidance"
            /\ Bump("prints")
       ELSE /\ pc' = "get_credentials"
            /\ Bump("download_calls")
    /\ UNCHANGED <<SPREADSHEET_ID, remote, token0, dir_exists, fs>>
    /\ UNCHANGED <<credVars, loopVars, csvVars>>

\* the mutant of DumpAndReturn: the credentials are returned, the cache is not written
ReturnWithoutDump(c, field) ==
    /\ token_pickle' = token_pickle
    /\ creds' = c
    /\ pc' = "list"
    /\ stats' = [stats EXCEPT ![field] = @ + 1, !.returns = @ + 1]

\* lines 31-32 and 34: the cache is written, then the credentials are returned
DumpAndReturn(c, field) ==
    \/ /\ token_pickle' = Cached(c)
       /\ creds' = c
       /\ pc' = "list"
       /\ stats' = [stats EXCEPT ![field] = @ + 1, !.dumps = @ + 1, !.returns = @ + 1]
    \/ \* open(..., 'wb') or pickle.dump raises
       /\ token_pickle' \in {token_pickle, Truncated}
       /\ creds' = c
       /\ pc' = "aborted"
       /\ stats' = [stats EXCEPT ![field] = @ + 1]

\* lines 16-34, called from line 65
get_credentials ==
    /\ pc = "get_credentials"
    /\ LET c == IF token_pickle.exists THEN token_pickle.creds ELSE NoCreds
       IN  IF token_pickle.exists /\ ~token_pickle.readable
           THEN \* pickle.load raises
                Abort(<<credVars, stats>>)
           ELSE IF ~c.none /\ valid(c)
           THEN /\ creds' = c
                /\ pc' = "list"
                /\ stats' = [stats EXCEPT !.returns = @ + 1]
                /\ UNCHANGED token_pickle
           ELSE IF ~c.none /\ c.expired /\ c.refresh_token
           THEN \/ DumpAndReturn(refreshed(c), "refreshes")
                \/ \* creds.refresh raises
                   /\ Abort(<<token_pickle>>)
                   /\ creds' = c
                   /\ Bump("refreshes")
           ELSE \/ DumpAndReturn(granted, "flows")
                \/ \* the interactive flow raises
                   /\ Abort(<<token_pickle>>)
                   /\ creds' = c
                   /\ Bump("flows")
    /\ UNCHANGED <<SPREADSHEET_ID, remote, token0, dir_exists, fs>>
    /\ UNCHANGED <<loopVars, csvVars>>

(***************************************************************************)
(* download_all_sheets, lines 63-92.                                       *)
(***************************************************************************)
OUTPUT_DIR == <<"sheets_export">>
CSV_SUFFIX == <<".csv">>

\* os.path.join(a, b) on POSIX: an absolute b discards a
os_path_join(a, b) == IF b # <<>> /\ b[1] = SLASH THEN b ELSE a \o <<SLASH>> \o b

\* the mutant of filename_of: the tab name is used as it is
filename_unsanitized(sheet_name) == sheet_name \o CSV_SUFFIX

\* line 84
filename_of(sheet_name) == replace(sheet_name, SLASH, <<UNDERSCORE>>) \o CSV_SUFFIX

\* line 85
filepath_of(sheet_name) == os_path_join(OUTPUT_DIR, filename_of(sheet_name))

Titles == [k \in 1..Len(remote) |-> remote[k].title]

GetEvent(i, name) == [op |-> "get", i |-> i, name |-> name, path |-> <<>>, text |-> <<>>]
WriteEvent(i, name, path, text) ==
    [op |-> "write", i |-> i, name |-> name, path |-> path, text |-> text]

Reverse(q) == [k \in 1..Len(q) |-> q[Len(q) + 1 - k]]

\* the mutant of ListSheets: the tab names are taken in the reverse of the API's order
ListSheetsReversed ==
    /\ pc = "list"
    /\ sheet_names' = Reverse(Titles)
    /\ pc' = "makedirs"
    /\ Bump("api_calls")
    /\ UNCHANGED <<SPREADSHEET_ID, remote, token0, dir_exists, fs, idx, log>>
    /\ UNCHANGED <<credVars, csvVars>>

\* lines 66-72: build the service and request the list of tabs
ListSheets ==
    /\ pc = "list"
    /\ \/ /\ sheet_names' = Titles
          /\ pc' = "makedirs"
          /\ Bump("api_calls")
       \/ /\ Abort(<<sheet_names>>)
          /\ Bump("api_calls")
    /\ UNCHANGED <<SPREADSHEET_ID, remote, token0, dir_exists, fs, idx, log>>
    /\ UNCHANGED <<credVars, csvVars>>

\* line 75
MakeDirs ==
    /\ pc = "makedirs"
    /\ \/ /\ dir_exists' = TRUE
          /\ pc' = "loop"
          /\ stats' = [stats EXCEPT !.mkdirs = @ + (IF dir_exists THEN 0 ELSE 1)]
       \/ Abort(<<dir_exists, stats>>)
    /\ UNCHANGED <<SPREADSHEET_ID, remote, token0, fs>>
    /\ UNCHANGED <<credVars, loopVars, csvVars>>

\* lines 77-83: the next tab is requested and serialized
ExportSheet ==
    /\ pc = "loop"
    /\ idx <= Len(sheet_names)
    /\ \/ /\ log' = Append(log, GetEvent(idx, sheet_names[idx]))
          /\ Bump("api_calls")
          /\ export_sheet_to_csv(values_of(sheet_names[idx]))
          /\ IF truthy(csv_data')
             THEN pc' = "open" /\ idx' = idx
             ELSE pc' = "loop" /\ idx' = idx + 1
       \/ \* the values request raises
          /\ Abort(<<idx, csvVars>>)
          /\ log' = Append(log, GetEvent(idx, sheet_names[idx]))
          /\ Bump("api_calls")
    /\ UNCHANGED <<SPREADSHEET_ID, remote, token0, dir_exists, fs, sheet_names>>
    /\ UNCHANGED credVars

Put(path, text) == [p \in DOMAIN fs \cup {path} |-> IF p = path THEN text ELSE fs[p]]

\* line 87: open(filepath, 'w') creates the file or truncates it
OpenFile ==
    /\ pc = "open"
    /\ \/ /\ fs' = Put(filepath_of(sheet_names[idx]), <<>>)
          /\ pc' = "write"
       \/ Abort(<<fs>>)
    /\ UNCHANGED <<SPREADSHEET_ID, remote, token0, dir_exists, stats>>
    /\ UNCHANGED <<credVars, loopVars, csvVars>>

\* lines 88-90: f.write(csv_data) and the close of the file
WriteFile ==
    /\ pc = "write"
    /\ \/ /\ fs' = Put(filepath_of(sheet_names[idx]), csv_data.text)
          /\ log' = Append(log, WriteEvent(idx, sheet_names[idx],
                                         filepath_of(sheet_names[idx]), csv_data.text))
          /\ idx' = idx + 1
          /\ pc' = "loop"
       \/ \* the write raises: some proper prefix of the text reached the file
          /\ \E n \in 0..(Len(csv_data.text) - 1) :
                fs' = Put(filepath_of(sheet_names[idx]), SubSeq(csv_data.text, 1, n))
          /\ Abort(<<idx, log>>)
    /\ UNCHANGED <<SPREADSHEET_ID, remote, token0, dir_exists, stats, sheet_names>>
    /\ UNCHANGED <<credVars, csvVars>>

\* line 92: the loop is exhausted
Finish ==
    /\ pc = "loop"
    /\ idx > Len(sheet_names)
    /\ pc' = "done"
    /\ UNCHANGED <<SPREADSHEET_ID, remote, token0, dir_exists, fs, stats>>
    /\ UNCHANGED <<credVars, loopVars, csvVars>>

(***************************************************************************)
(* The spreadsheets and caches the script is run against.                  *)
(***************************************************************************)
TabNames == {<<"a", SLASH, "b">>, <<"a", UNDERSCORE, "b">>, <<"c">>}

TabGrids ==
    { <<>>,
      << <<StrCell(<<>>)>> >>,
      << <<StrCell(<<"a">>)>> >>,
      << <<StrCell(<<"a">>), StrCell(<<"a", COMMA>>)>>, <<IntCell(MaxInt)>> >> }

Injective(f) == \A i, j \in DOMAIN f : f[i] = f[j] => i = j

\* a spreadsheet has at least one tab and no two tabs of the same name
Spreadsheets ==
    UNION { { s \in [1..n -> [title : TabNames, values : TabGrids]] :
                Injective([k \in 1..n |-> s[k].title]) } : n \in 1..MaxTabs }

CachedCreds ==
    [none : {FALSE}, token : {"none", "cached"}, expired : BOOLEAN, refresh_token : BOOLEAN]

Caches == {Absent, Truncated} \cup {Cached(c) : c \in CachedCreds}

ZeroStats ==
    [download_calls |-> 0, api_calls |-> 0, refreshes |-> 0, flows |-> 0, dumps |-> 0,
     returns |-> 0, prints |-> 0, mkdirs |-> 0]

Init ==
    /\ pc = "main"
    /\ SPREADSHEET_ID \in {PLACEHOLDER, "1AbC"}
    /\ remote \in Spreadsheets
    /\ token_pickle \in Caches
    /\ token0 = token_pickle
    /\ creds = NoCreds
    /\ dir_exists \in BOOLEAN
    /\ fs = <<>>
    /\ sheet_names = <<>>
    /\ idx = 1
    /\ values = <<>>
    /\ csv_rows = <<>>
    /\ csv_content = <<>>
    /\ csv_data = None
    /\ log = <<>>
    /\ stats = ZeroStats

Next ==
    \/ Main
    \/ get_credentials
    \/ ListSheets
    \/ MakeDirs
    \/ ExportSheet
    \/ OpenFile
    \/ WriteFile
    \/ Finish

Spec == Init /\ [][Next]_vars

(***************************************************************************)
(* SpecCsv: a user fills the single tab of a spreadsheet cell by cell,     *)
(* then export_sheet_to_csv is applied to what the API returns for it.     *)
(***************************************************************************)
RECURSIVE Sum(_)
Sum(q) == IF q = <<>> THEN 0 ELSE Head(q) + Sum(Tail(q))

\* one key per typed character, one per number or boolean entered
Keys(grid) ==
    Sum([i \in 1..Len(grid) |->
            Sum([j \in 1..Len(grid[i]) |->
                    IF grid[i][j].kind = "str" THEN Len(grid[i][j].s) ELSE 1])])

\* the number of cells of a grid
Cells(grid) == Sum([i \in 1..Len(grid) |-> Len(grid[i])])

EnteredCells == {StrCell(<<>>), IntCell(MaxInt), BoolCell(TRUE)}

SetValues(grid) == remote' = [remote EXCEPT ![1].values = grid]

driverVars == <<SPREADSHEET_ID, token_pickle, token0, creds, dir_exists, fs,
                sheet_names, idx, log, stats>>

\* the user starts a new row below the last one
UserAddRow ==
    /\ pc = "edit"
    /\ Len(remote[1].values) < MaxRows
    /\ SetValues(Append(remote[1].values, <<>>))
    /\ UNCHANGED <<pc, driverVars, csvVars>>

\* the user starts a new cell at the end of the last row
UserAddCell ==
    /\ pc = "edit"
    /\ LET g == remote[1].values
       IN  /\ g # <<>>
           /\ Cells(g) < MaxCells
           /\ \E cell \in EnteredCells :
                /\ cell.kind # "str" => Keys(g) < MaxKeys
                /\ SetValues([g EXCEPT ![Len(g)] = Append(@, cell)])
    /\ UNCHANGED <<pc, driverVars, csvVars>>

\* the user types one more character into the last cell
UserType ==
    /\ pc = "edit"
    /\ LET g == remote[1].values
       IN  /\ g # <<>>
           /\ g[Len(g)] # <<>>
           /\ g[Len(g)][Len(g[Len(g)])].kind = "str"
           /\ Keys(g) < MaxKeys
           /\ \E c \in Alphabet :
                SetValues([g EXCEPT ![Len(g)][Len(g[Len(g)])].s = Append(@, c)])
    /\ UNCHANGED <<pc, driverVars, csvVars>>

\* lines 36-61 for the tab
ExportTab ==
    /\ pc = "edit"
    /\ export_sheet_to_csv(values_of(remote[1].title))
    /\ pc' = "exported"
    /\ UNCHANGED <<remote, driverVars>>

InitCsv ==
    /\ pc = "edit"
    /\ SPREADSHEET_ID = "1AbC"
    /\ remote = << [title |-> <<"c">>, values |-> <<>>] >>
    /\ token_pickle = Absent
    /\ token0 = Absent
    /\ creds = NoCreds
    /\ dir_exists = FALSE
    /\ fs = <<>>
    /\ sheet_names = <<>>
    /\ idx = 1
    /\ values = <<>>
    /\ csv_rows = <<>>
    /\ csv_content = <<>>
    /\ csv_data = None
    /\ log = <<>>
    /\ stats = ZeroStats

NextCsv ==
    \/ UserAddRow
    \/ UserAddCell
    \/ UserType
    \/ ExportTab

SpecCsv == InitCsv /\ [][NextCsv]_vars

(***************************************************************************)
(* Vocabulary of the properties.                                           *)
(***************************************************************************)
\* the grid of display strings of a grid of cells
Display(grid) == [i \in 1..Len(grid) |-> [j \in 1..Len(grid[i]) |-> str(grid[i][j])]]

Special(s) == \E k \in 1..Len(s) : s[k] \in {COMMA, DQUOTE, NEWLINE}

Quoted(f) == Len(f) >= 2 /\ f[1] = DQUOTE /\ f[Len(f)] = DQUOTE

\* the number of double-quotes among the first k - 1 characters of s
QuotesBefore(s, k) == Cardinality({m \in 1..(k - 1) : s[m] = DQUOTE})

\* body is s with every double-quote doubled and nothing else changed
DoubledBody(body, s) ==
    /\ Len(body) = Len(s) + QuotesBefore(s, Len(s) + 1)
    /\ \A k \in 1..Len(s) :
          /\ body[k + QuotesBefore(s, k)] = s[k]
          /\ s[k] = DQUOTE => body[k + QuotesBefore(s, k) + 1] = DQUOTE

\* where part k starts in a text made of the parts with one separator between them
StartOf(parts, k) == 1 + Sum([m \in 1..(k - 1) |-> Len(parts[m]) + 1])

\* text is the parts in order with exactly one sep between consecutive parts
JoinedBy(text, parts, sep) ==
    /\ Len(text) = Sum([m \in 1..Len(parts) |-> Len(parts[m])])
                   + (IF Len(parts) = 0 THEN 0 ELSE Len(parts) - 1)
    /\ \A k \in 1..Len(parts) :
          /\ SubSeq(text, StartOf(parts, k), StartOf(parts, k) + Len(parts[k]) - 1) = parts[k]
          /\ k < Len(parts) => text[StartOf(parts, k) + Len(parts[k])] = sep

\* An RFC-4180 reader: comma delimiter, a field that starts with a double-quote
\* runs to its closing double-quote, a doubled double-quote inside it is one
\* double-quote, a line break outside quotes ends the row.
RECURSIVE ParseFrom(_, _, _, _, _, _)
ParseFrom(t, k, mode, field, row, rows) ==
    IF k > Len(t) THEN Append(rows, Append(row, field))
    ELSE IF mode = "quoted"
    THEN IF t[k] = DQUOTE
         THEN ParseFrom(t, k + 1, "closing", field, row, rows)
         ELSE ParseFrom(t, k + 1, "quoted", Append(field, t[k]), row, rows)
    ELSE IF mode = "closing" /\ t[k] = DQUOTE
    THEN ParseFrom(t, k + 1, "quoted", Append(field, DQUOTE), row, rows)
    ELSE IF t[k] = COMMA
    THEN ParseFrom(t, k + 1, "start", <<>>, Append(row, field), rows)
    ELSE IF t[k] = NEWLINE
    THEN ParseFrom(t, k + 1, "start", <<>>, <<>>, Append(rows, Append(row, field)))
    ELSE IF mode = "start" /\ t[k] = DQUOTE
    THEN ParseFrom(t, k + 1, "quoted", field, row, rows)
    ELSE ParseFrom(t, k + 1, "plain", Append(field, t[k]), row, rows)

Parse(t) == ParseFrom(t, 1, "start", <<>>, <<>>, <<>>)

Exported == pc = "exported" /\ Len(values) > 0

Gets == SelectSeq(log, LAMBDA e : e.op = "get")
Writes == {log[k] : k \in {m \in 1..Len(log) : log[m].op = "write"}}

\* the text export_sheet_to_csv returns for tab k of the spreadsheet
Serialized(k) == join(<<NEWLINE>>, csv_content_of(remote[k].values))

(***************************************************************************)
(* The properties.                                                         *)
(***************************************************************************)
\* C1: every emitted field is wrapped in double-quotes iff the cell's display
\* string contains a comma, a double-quote or a newline; the body of a quoted
\* field is the display string with every double-quote doubled and nothing
\* else changed; an unquoted field is the display string.
C1_FieldQuoting ==
    Exported =>
        /\ Len(csv_rows) = Len(values)
        /\ \A i \in 1..Len(values) :
              /\ Len(csv_rows[i]) = Len(values[i])
              /\ \A j \in 1..Len(values[i]) :
                    LET s == str(values[i][j])
                        f == csv_rows[i][j]
                    IN  /\ Quoted(f) <=> Special(s)
                        /\ Special(s) => DoubledBody(SubSeq(f, 2, Len(f) - 1), s)
                        /\ ~Special(s) => f = s

C1_Witness ==
    /\ Exported
    /\ \E i \in 1..Len(values) : \E j \in 1..Len(values[i]) :
          /\ contains(DQUOTE, str(values[i][j]))
          /\ Len(str(values[i][j])) >= 2
          /\ Quoted(csv_rows[i][j])
    /\ \E i \in 1..Len(values) : \E j \in 1..Len(values[i]) :
          /\ ~Special(str(values[i][j]))
          /\ csv_rows[i][j] # <<>>

\* C2: the CSV text of a non-empty grid has exactly one row per row of the grid,
\* and row i of the text has exactly as many fields as row i of the grid has cells.
C2_RowAndFieldCounts ==
    Exported =>
        /\ Len(Parse(csv_data.text)) = Len(values)
        /\ \A i \in 1..Len(values) : Len(Parse(csv_data.text)[i]) = Len(values[i])

\* C3: reading the CSV text of a non-empty grid back with an RFC-4180 reader
\* gives the rows and the display string of every cell of the grid.
C3_RoundTrip == Exported => Parse(csv_data.text) = Display(values)

\* C2 and C3 hold of the grids in which every row has at least one cell.
RoundTripOfFilledRows ==
    (Exported /\ \A i \in 1..Len(values) : Len(values[i]) > 0)
        => Parse(csv_data.text) = Display(values)

\* C4: in a run that completes a tab has no file written for it iff its grid
\* has no rows, and the file written for a tab holds the serialized grid.
C4_SkippedIffNoRows ==
    pc = "done" =>
        \A k \in 1..Len(remote) :
            /\ (\A w \in Writes : w.i # k) <=> Len(remote[k].values) = 0
            /\ \A w \in Writes : w.i = k => w.text = Serialized(k)

\* C5: in a run that completes no two tabs are written to the same file, every
\* file lies directly in the output directory under the sanitized tab name,
\* and it holds the serialized grid of its own tab.
C5_OneFilePerTab ==
    pc = "done" =>
        /\ \A w, v \in Writes : w.i # v.i => w.path # v.path
        /\ \A w \in Writes :
              /\ w.path = OUTPUT_DIR \o <<SLASH>> \o filename_of(remote[w.i].title)
              /\ ~contains(SLASH, filename_of(remote[w.i].title))
              /\ w.path \in DOMAIN fs
              /\ fs[w.path] = Serialized(w.i)

\* C6: when a collaborator call fails, no later tab is requested or written and
\* every file completely written for an earlier tab is on disk, unchanged.
C6_WrittenFilesSurvive ==
    pc = "aborted" =>
        /\ \A k \in 1..Len(log) : log[k].i <= idx
        /\ \A w \in Writes : w.path \in DOMAIN fs /\ fs[w.path] = w.text

\* C7: the tabs are requested in the order the API returned them, each at most
\* once and in a completed run exactly once; a file written for a tab is written
\* right after that tab's request, and the next tab is requested only when the
\* tab before it has been written or has nothing to write.
C7_Sequential ==
    /\ \A k \in 1..Len(Gets) : Gets[k].i = k /\ Gets[k].name = remote[k].title
    /\ \A k \in 1..Len(log) :
          /\ log[k].op = "write" =>
                /\ k > 1
                /\ log[k - 1].op = "get"
                /\ log[k - 1].i = log[k].i
                /\ log[k].text = Serialized(log[k].i)
          /\ (log[k].op = "get" /\ k > 1 /\ log[k - 1].op = "get") =>
                ~truthy(IF Len(remote[log[k - 1].i].values) = 0
                        THEN None ELSE Text(Serialized(log[k - 1].i)))
    /\ pc = "done" => Len(Gets) = Len(remote)

C7_Witness ==
    /\ pc = "done"
    /\ Len(log) >= 3
    /\ log[1].op = "get" /\ log[2].op = "write" /\ log[3].op = "get"

\* C8: with the placeholder ID the script prints the guidance and does nothing
\* else: no credential is loaded or requested, no API call is made, no directory
\* or file is created; with another ID download_all_sheets is called exactly once.
C8_PlaceholderDoesNothing ==
    /\ SPREADSHEET_ID = PLACEHOLDER =>
          /\ pc \in {"main", "guidance"}
          /\ pc = "guidance" => stats = [ZeroStats EXCEPT !.prints = 1]
          /\ pc = "main" => stats = ZeroStats
          /\ creds = NoCreds /\ token_pickle = token0
          /\ fs = <<>> /\ log = <<>>
    /\ SPREADSHEET_ID # PLACEHOLDER =>
          /\ stats.prints = 0
          /\ stats.download_calls = (IF pc = "main" THEN 0 ELSE 1)

C8_Witness == pc = "guidance" /\ SPREADSHEET_ID = PLACEHOLDER /\ stats.prints = 1

\* C9: the text is the serialized rows in input order with exactly one newline
\* between consecutive rows and none at the end; each row is the serialized
\* fields of its own cells in input order with exactly one comma between
\* consecutive fields.
C9_JoinedRowsAndFields ==
    Exported =>
        /\ ~csv_data.none
        /\ Len(csv_content) = Len(values)
        /\ JoinedBy(csv_data.text, csv_content, NEWLINE)
        /\ \A i \in 1..Len(values) :
              /\ Len(csv_rows[i]) = Len(values[i])
              /\ JoinedBy(csv_content[i], csv_rows[i], COMMA)
              /\ \A j \in 1..Len(values[i]) : csv_rows[i][j] = csv_field(values[i][j])

C9_Witness ==
    /\ Exported
    /\ Len(values) = 2
    /\ Len(values[1]) = 2 /\ Len(values[2]) = 1
    /\ csv_data.text # <<>>

\* C10: once get_credentials has returned, token.pickle holds the credentials it
\* returned; valid cached credentials are returned without a refresh, a flow or
\* a write of the cache; expired ones with a refresh token are refreshed with
\* no flow; otherwise the flow runs; both of these write the cache once.
C10_CacheHoldsReturned ==
    stats.returns = 1 =>
        LET c == IF token0.exists THEN token0.creds ELSE NoCreds
            ok == ~c.none /\ valid(c)
            refreshable == ~ok /\ ~c.none /\ c.expired /\ c.refresh_token
        IN  /\ token_pickle = Cached(creds)
            /\ ok => /\ creds = c /\ token_pickle = token0
                     /\ stats.refreshes = 0 /\ stats.flows = 0 /\ stats.dumps = 0
            /\ refreshable => /\ creds = refreshed(c)
                              /\ stats.refreshes = 1 /\ stats.flows = 0 /\ stats.dumps = 1
            /\ (~ok /\ ~refreshable) => /\ creds = granted
                                        /\ stats.refreshes = 0 /\ stats.flows = 1
                                        /\ stats.dumps = 1

C10_Witness ==
    /\ stats.returns = 1
    /\ stats.refreshes = 1
    /\ token0.exists /\ token_pickle # token0
====
